---------------------------- MODULE Spec2Model ----------------------------
(***************************************************************************)
(* A model of ToyTcp: the TCP connection state machine of src/src/tcp.rs   *)
(* (Connection::accept, write, on_tick, on_packet, close) and the socket   *)
(* facade and ingress loop of src/src/lib.rs.                              *)
(*                                                                         *)
(* Sequence numbers are u32.  TLC's integers stop at 2^31 - 1, so a u32 is *)
(* kept as two 16-bit limbs <<hi, lo>> and the wrapping operations are     *)
(* computed limb by limb: the arithmetic is exactly that of the code,      *)
(* modulo 2^32.                                                            *)
(*                                                                         *)
(* Time is counted in milliseconds since the interface was created.  srtt  *)
(* is the f64 number of seconds of the code, bit for bit: the operations   *)
(* on it are computed exactly and rounded as IEEE 754 rounds them.         *)
(*                                                                         *)
(* A payload byte is represented by a natural number.  The application     *)
(* writes the bytes 0, 1, 2, ... of its stream, so a byte in unacked or on *)
(* the wire names its position in the application's stream.                *)
(***************************************************************************)
EXTENDS Integers, Sequences, FiniteSets, TLC

---------------------------------------------------------------------------
(* u32 arithmetic (two 16-bit limbs)                                       *)

Limb == 2^16

U32 == (0 .. Limb - 1) \X (0 .. Limb - 1)

\* the u32 of a natural number below 2^31
u32(n) == <<n \div Limb, n % Limb>>

\* the natural number of a u32 below 2^31 (`as usize` of a value that is
\* then used as a length or an index)
nat(x) == x[1] * Limb + x[2]

\* u32::wrapping_add
wrapping_add(a, b) ==
    LET lo == a[2] + b[2]
        hi == a[1] + b[1] + (lo \div Limb)
    IN  <<hi % Limb, lo % Limb>>

\* u32::wrapping_sub
wrapping_sub(a, b) ==
    LET lo == a[2] - b[2]
        hi == a[1] - b[1] - (IF lo < 0 THEN 1 ELSE 0)
    IN  <<hi % Limb, lo % Limb>>

\* the native order of u32 (and of usize values that came from a u32)
ULt(a, b) == a[1] < b[1] \/ (a[1] = b[1] /\ a[2] < b[2])

\* std::cmp::min on u32 / usize
umin(a, b) == IF ULt(b, a) THEN b ELSE a

Min(a, b) == IF b < a THEN b ELSE a

\* 1 << 31
HalfRange == <<2^15, 0>>

---------------------------------------------------------------------------
(* Sequence algebra: tcp.rs, wrapping_lt and is_between_wrapped            *)

wrapping_lt(lhs, rhs) == ULt(HalfRange, wrapping_sub(lhs, rhs))

is_between_wrapped(start, x, end) ==
    wrapping_lt(start, x) /\ wrapping_lt(x, end)

---------------------------------------------------------------------------
(* Option<u32>: None is the empty sequence, Some(x) is <<x>>               *)

None == <<>>

Some(x) == <<x>>

unwrap_or(o, d) == IF o = None THEN d ELSE o[1]

---------------------------------------------------------------------------
(* Program constants                                                       *)

\* lib.rs: const SENDQUEUE_SIZE
SENDQUEUE_SIZE == 1024

\* tcp.rs, accept: let wnd = 1024 (send.wnd and the advertised window)
InitialWindow == 1024

\* tcp.rs, write: let mut buf = [0u8; 1500]
BufLen == 1500

\* tcp.rs, write: ip.header_len() + tcp.header_len(), both without options
HeadersLen == 40

\* tcp.rs, accept: srtt starts at one minute (here in milliseconds)
InitialSrtt == 60000

(* f64.  A non-negative f64 is kept exactly, as a binary fixed-point       *)
(* number: a sequence of FixLimbs limbs of 13 bits, lowest first, of which *)
(* the first FracLimbs are below the binary point.  Every f64 operation of *)
(* the code is the exact operation followed by round53, the rounding of    *)
(* IEEE 754 to 53 significant bits, ties to even.                          *)

Radix == 2^13

FracLimbs == 10

FixLimbs == 12

\* the 52-bit numerators of the f64 constants 0.8 and 1.0 - 0.8 over 2^52
Frac08 == <<3277, 1638, 4915, 6553>>

Frac02 == <<4915, 6553, 3276, 1638>>

\* limbs below Radix from column sums, the carries taken along
RECURSIVE normalize(_, _)
normalize(s, carry) ==
    IF s = <<>> THEN <<>>
    ELSE <<(Head(s) + carry) % Radix>>
            \o normalize(Tail(s), (Head(s) + carry) \div Radix)

RECURSIVE column(_, _, _, _)
column(x, k, i, j) ==
    IF j > Len(k) THEN 0
    ELSE (IF i - j + 1 \in 1 .. Len(x) THEN x[i - j + 1] * k[j] ELSE 0)
            + column(x, k, i, j + 1)

\* the exact product of the limb sequences x and k
big_mul(x, k) ==
    normalize([i \in 1 .. Len(x) + Len(k) |-> column(x, k, i, 1)], 0)

\* the exact sum of two limb sequences of one length, one limb longer
big_add(x, y) ==
    normalize([i \in 1 .. Len(x) + 1 |->
                  IF i <= Len(x) THEN x[i] + y[i] ELSE 0], 0)

\* x > y, for limb sequences of one length
RECURSIVE big_gt(_, _, _)
big_gt(x, y, i) ==
    IF i = 0 THEN FALSE
    ELSE IF x[i] # y[i] THEN x[i] > y[i]
    ELSE big_gt(x, y, i - 1)

\* x with its n lowest limbs taken off, and cut or filled to FixLimbs limbs
fix(x, n) ==
    [i \in 1 .. FixLimbs |-> IF i + n <= Len(x) THEN x[i + n] ELSE 0]

\* round to nearest, ties to even, at 53 significant bits
round53(x) ==
    LET used == {i \in 1 .. Len(x) : x[i] # 0}
        top == CHOOSE i \in used : \A k \in used : k <= i
        high == CHOOSE b \in 0 .. 12 : x[top] \div 2^b = 1
        q == 13 * (top - 1) + high - 52    \* the lowest bit that is kept
        a == q \div 13
        b == q % 13
        la == x[a + 1]
        low == la % 2^b
        rest(n) == \E k \in 1 .. n : x[k] # 0
        odd == (la \div 2^b) % 2 = 1
        up == IF b > 0
              THEN \/ low > 2^(b - 1)
                   \/ low = 2^(b - 1) /\ (rest(a) \/ odd)
              ELSE \/ x[a] > Radix \div 2
                   \/ x[a] = Radix \div 2 /\ (rest(a - 1) \/ odd)
    IN  IF used = {} \/ q <= 0 THEN x
        ELSE normalize([i \in 1 .. Len(x) |->
                          IF i <= a THEN 0
                          ELSE IF i = a + 1
                          THEN la - low + (IF up THEN 2^b ELSE 0)
                          ELSE x[i]], 0)

\* the limbs of rem / 1000 below the binary point, highest first
RECURSIVE thousandths(_, _)
thousandths(rem, n) ==
    IF n = 0 THEN <<>>
    ELSE <<(rem * Radix) \div 1000>>
            \o thousandths((rem * Radix) % 1000, n - 1)

\* Duration::as_secs_f64 of a whole number of milliseconds:
\* (secs as f64) + (nanos as f64) / (NANOS_PER_SEC as f64)
as_secs_f64(ms) ==
    LET secs == ms \div 1000
        digits == thousandths(ms % 1000, FracLimbs)
        \* what the division leaves beyond the last limb only tells a tie
        \* from more than a tie
        sticky == IF (ms % 1000) % 125 = 0 THEN 0 ELSE 1
        quotient == [i \in 1 .. FixLimbs |->
                       IF i = 1 THEN digits[FracLimbs] - (digits[FracLimbs] % 2)
                                     + (IF sticky = 1 THEN 1 ELSE digits[FracLimbs] % 2)
                       ELSE IF i <= FracLimbs THEN digits[FracLimbs + 1 - i]
                       ELSE 0]
        whole == [i \in 1 .. FixLimbs |->
                    IF i = FracLimbs + 1 THEN secs % Radix
                    ELSE IF i = FracLimbs + 2 THEN secs \div Radix
                    ELSE 0]
    IN  fix(round53(big_add(whole, round53(quotient))), 0)

\* the srtt of a whole number of milliseconds
srtt_of(ms) == as_secs_f64(ms)

\* 0.8 * srtt + (1.0 - 0.8) * elapsed.as_secs_f64(), for elapsed in whole
\* milliseconds
smooth_once(srtt, elapsed) ==
    LET old == fix(round53(big_mul(srtt, Frac08)), 4)
        new == fix(round53(big_mul(as_secs_f64(elapsed), Frac02)), 4)
    IN  fix(round53(big_add(old, new)), 0)

\* waited_for.as_secs_f64() > 1.5 * srtt, for waited_for in whole
\* milliseconds; both sides are doubled
exceeds(waited_for, srtt) ==
    LET twice == big_mul(as_secs_f64(waited_for), <<2>>)
        thrice == round53(big_mul(srtt, <<3>>))
    IN  big_gt(twice, thrice, Len(twice))

\* srtt in whole milliseconds, rounded down
srtt_ms(srtt) ==
    LET scaled == big_mul(srtt, <<1000>>)
    IN  scaled[FracLimbs + 1] + Radix * scaled[FracLimbs + 2]
            + Radix * Radix * scaled[FracLimbs + 3]

\* tcp.rs, on_tick: time::Duration::from_secs(1), in milliseconds
OneSecond == 1000

---------------------------------------------------------------------------
(* Connection: tcp.rs                                                      *)

States == {"SynRecvd", "Estab", "FinWait1", "FinWait2", "TimeWait"}

is_synchronized(state) == state \in {"Estab", "FinWait1", "FinWait2", "TimeWait"}

is_rcv_closed(c) == c.state = "TimeWait"

availability(c) ==
    IF is_rcv_closed(c) \/ c.incoming # <<>> THEN {"READ"} ELSE {}

\* BTreeMap::insert
map_insert(m, k, v) ==
    [x \in DOMAIN m \cup {k} |-> IF x = k THEN v ELSE m[x]]

\* the least key of a non-empty set of u32 keys (BTreeMap order)
first_key(keys) == CHOOSE k \in keys : \A j \in keys : ~ULt(j, k)

(* Connection::write(nic, seq, limit): frames one segment.  The result is  *)
(* [c: the connection afterwards, out: the segments given to nic.send,     *)
(* panic: whether the call panicked, n: payload_bytes].  `checks` says     *)
(* whether the build has overflow checks (debug) or wraps (release).       *)
write(c, seq, limit0, now, checks) ==
    LET \* println!: self.recv.nxt - self.recv.irs, a plain u32 subtraction
        print_overflow == checks /\ ULt(c.recv.nxt, c.recv.irs)
        fin_resend == c.closed_at # None /\ seq = wrapping_add(c.closed_at[1], u32(1))
        offset == IF fin_resend THEN u32(0) ELSE wrapping_sub(seq, c.send.una)
        limit  == IF fin_resend THEN u32(0) ELSE limit0
        len    == u32(Len(c.unacked))
        \* h = &h[offset..] or t = &t[(offset - skipped)..]: out of range
        \* exactly when offset exceeds the bytes the two slices hold
        slice_panic == ULt(len, offset)
    IN  IF print_overflow \/ slice_panic
        THEN [c |-> c, out |-> <<>>, panic |-> TRUE, n |-> 0]
        ELSE
        LET off == nat(offset)
            max_data == nat(umin(limit, u32(Len(c.unacked) - off)))
            \* the payload is written into what the 1500-byte buffer has
            \* left after the two headers
            payload_bytes == Min(max_data, BufLen - HeadersLen)
            payload == SubSeq(c.unacked, off + 1, off + payload_bytes)
            next_seq == wrapping_add(
                            wrapping_add(seq, u32(payload_bytes)),
                            u32((IF c.tcp.syn THEN 1 ELSE 0)
                                + (IF c.tcp.fin THEN 1 ELSE 0)))
            seg == [seq |-> seq, ack |-> c.recv.nxt, syn |-> c.tcp.syn,
                    ackf |-> c.tcp.ack, fin |-> c.tcp.fin,
                    payload |-> payload]
            c1 == [c EXCEPT
                     !.tcp.syn = FALSE,
                     !.tcp.fin = FALSE,
                     !.send.nxt = IF wrapping_lt(c.send.nxt, next_seq)
                                  THEN next_seq ELSE @,
                     !.timers.send_times = map_insert(@, seq, now)]
        IN  [c |-> c1, out |-> <<seg>>, panic |-> FALSE, n |-> payload_bytes]

(* Connection::accept(nic, iph, tcph, data) for a segment with sequence    *)
(* number seq, window size wnd and SYN flag syn.  ok is FALSE for          *)
(* Ok(None).                                                               *)
accept(seq, wnd, syn, now, checks) ==
    LET iss == u32(0)
        \* tcph.sequence_number() + 1: a plain u32 addition
        add_overflow == seq = <<Limb - 1, Limb - 1>>
        c == [state     |-> "SynRecvd",
              send      |-> [iss |-> iss, una |-> iss, nxt |-> iss,
                             wnd |-> InitialWindow],
              recv      |-> [irs |-> seq, nxt |-> wrapping_add(seq, u32(1)),
                             wnd |-> wnd],
              tcp       |-> [syn |-> TRUE, ack |-> TRUE, fin |-> FALSE],
              timers    |-> [send_times |-> <<>>, srtt |-> srtt_of(InitialSrtt)],
              incoming  |-> <<>>,
              unacked   |-> <<>>,
              closed    |-> FALSE,
              closed_at |-> None]
        w == write(c, c.send.nxt, u32(0), now, checks)
    IN  IF ~syn
        THEN [ok |-> FALSE, c |-> c, out |-> <<>>, panic |-> FALSE]
        ELSE IF checks /\ add_overflow
        THEN [ok |-> FALSE, c |-> c, out |-> <<>>, panic |-> TRUE]
        ELSE [ok |-> ~w.panic, c |-> w.c, out |-> w.out, panic |-> w.panic]

(* Connection::on_tick(nic)                                                *)
on_tick(c, now, checks) ==
    LET ret(cc) == [c |-> cc, out |-> <<>>, panic |-> FALSE]
        boom(cc) == [c |-> cc, out |-> <<>>, panic |-> TRUE]
        nunacked_data == wrapping_sub(unwrap_or(c.closed_at, c.send.nxt),
                                      c.send.una)
        len == u32(Len(c.unacked))
        wnd == u32(c.send.wnd)
        \* self.unacked.len() as u32 - nunacked_data: a plain subtraction
        nunsent_underflow == ULt(len, nunacked_data)
        nunsent_data == wrapping_sub(len, nunacked_data)
        \* self.timers.send_times.range(self.send.una..).next()
        armed == {k \in DOMAIN c.timers.send_times : ~ULt(k, c.send.una)}
        waited_for == now - c.timers.send_times[first_key(armed)]
        should_retransmit ==
            /\ armed # {}
            /\ waited_for > OneSecond
            /\ exceeds(waited_for, c.timers.srtt)
        with_fin(cc) == [cc EXCEPT
                           !.tcp.fin = TRUE,
                           !.closed_at = Some(wrapping_add(c.send.una, len))]
        \* self.send.wnd as u32 - nunacked_data: a plain subtraction
        allowed_underflow == ULt(wnd, nunacked_data)
        allowed == wrapping_sub(wnd, nunacked_data)
        resend == umin(len, wnd)
        send == umin(nunsent_data, allowed)
        done(w) == [c |-> w.c, out |-> w.out, panic |-> w.panic]
    IN  IF c.state \in {"FinWait2", "TimeWait"} THEN ret(c)
        ELSE IF checks /\ nunsent_underflow THEN boom(c)
        ELSE IF should_retransmit
        THEN done(write(IF ULt(resend, wnd) /\ c.closed THEN with_fin(c) ELSE c,
                        c.send.una, resend, now, checks))
        ELSE IF nunsent_data = u32(0) /\ c.closed_at # None THEN ret(c)
        ELSE IF checks /\ allowed_underflow THEN boom(c)
        ELSE IF allowed = u32(0) THEN ret(c)
        ELSE done(write(IF ULt(send, allowed) /\ c.closed /\ c.closed_at = None
                        THEN with_fin(c) ELSE c,
                        c.send.nxt, send, now, checks))

\* a faulty close: it succeeds in every state
close_lenient(c) == [c |-> [c EXCEPT !.closed = TRUE], ret |-> "Ok"]

(* Connection::close()                                                     *)
close(c) ==
    LET c1 == [c EXCEPT !.closed = TRUE]
    IN  IF c.state \in {"SynRecvd", "Estab"}
        THEN [c |-> [c1 EXCEPT !.state = "FinWait1"], ret |-> "Ok"]
        ELSE IF c.state \in {"FinWait1", "FinWait2"}
        THEN [c |-> c1, ret |-> "Ok"]
        ELSE [c |-> c1, ret |-> "NotConnected"]

---------------------------------------------------------------------------
(* Connection::on_packet, in the order of its code                         *)

\* slen: the payload, plus one for FIN, plus one for SYN
segment_len(seg) ==
    Len(seg.data) + (IF seg.fin THEN 1 ELSE 0) + (IF seg.syn THEN 1 ELSE 0)

\* wend
window_end(c) == wrapping_add(c.recv.nxt, u32(c.recv.wnd))

\* a faulty acceptability check: the upper bound of the window is inclusive
acceptable_inclusive(c, seg) ==
    LET slen == segment_len(seg)
        wend == wrapping_add(window_end(c), u32(1))
        before == wrapping_sub(c.recv.nxt, u32(1))
    IN  IF slen = 0
        THEN IF c.recv.wnd = 0
             THEN seg.seq = c.recv.nxt
             ELSE is_between_wrapped(before, seg.seq, wend)
        ELSE IF c.recv.wnd = 0
             THEN FALSE
             ELSE \/ is_between_wrapped(before, seg.seq, wend)
                  \/ is_between_wrapped(
                         before, wrapping_add(seg.seq, u32(slen - 1)), wend)

\* okay: the acceptability check
acceptable(c, seg) ==
    LET slen == segment_len(seg)
        wend == window_end(c)
        before == wrapping_sub(c.recv.nxt, u32(1))
    IN  IF slen = 0
        THEN IF c.recv.wnd = 0
             THEN seg.seq = c.recv.nxt
             ELSE is_between_wrapped(before, seg.seq, wend)
        ELSE IF c.recv.wnd = 0
             THEN FALSE
             ELSE \/ is_between_wrapped(before, seg.seq, wend)
                  \/ is_between_wrapped(
                         before, wrapping_add(seg.seq, u32(slen - 1)), wend)

\* if let State::SynRecvd = self.state { ... self.state = State::Estab }
establish(c, ackn) ==
    IF /\ c.state = "SynRecvd"
       /\ is_between_wrapped(wrapping_sub(c.send.una, u32(1)), ackn,
                             wrapping_add(c.send.nxt, u32(1)))
    THEN [c EXCEPT !.state = "Estab"]
    ELSE c

\* srtt = 0.8 * srtt + (1.0 - 0.8) * elapsed, once for every key of `keys`
\* in ascending order
RECURSIVE smooth(_, _, _, _)
smooth(srtt, keys, times, now) ==
    IF keys = {} THEN srtt
    ELSE LET k == first_key(keys)
         IN  smooth(smooth_once(srtt, now - times[k]),
                    keys \ {k}, times, now)

\* the send_times entries an ACK removes: is_between_wrapped(una, seq, ackn)
acked_keys(times, una, ackn) ==
    {k \in DOMAIN times : is_between_wrapped(una, k, ackn)}

\* a faulty test: it takes an acknowledgment of one number beyond send.nxt
ack_in_window_wide(c, ackn) ==
    is_between_wrapped(c.send.una, ackn, wrapping_add(c.send.nxt, u32(2)))

\* whether ackn acknowledges something new that was sent
ack_in_window(c, ackn) ==
    is_between_wrapped(c.send.una, ackn, wrapping_add(c.send.nxt, u32(1)))

\* a faulty start: it counts the SYN whatever send.una is
data_start_after_syn(c) == wrapping_add(c.send.una, u32(1))

\* the sequence number of the first byte of unacked: the SYN takes send.iss
data_start(c) ==
    IF c.send.una = c.send.iss THEN wrapping_add(c.send.una, u32(1))
    ELSE c.send.una

\* the cumulative-ACK processing of Estab, FinWait1 and FinWait2
process_ack(c, ackn, now) ==
    IF /\ c.state \in {"Estab", "FinWait1", "FinWait2"}
       /\ ack_in_window(c, ackn)
    THEN LET acked_data_end == nat(umin(wrapping_sub(ackn, data_start(c)),
                                        u32(Len(c.unacked))))
             gone == acked_keys(c.timers.send_times, c.send.una, ackn)
             c1 == IF c.unacked = <<>> THEN c
                   ELSE [c EXCEPT
                           !.unacked = SubSeq(@, acked_data_end + 1, Len(@)),
                           !.timers.srtt = smooth(@, gone,
                                                  c.timers.send_times, now),
                           !.timers.send_times =
                               [k \in DOMAIN @ \ gone |-> @[k]]]
         IN  [c1 EXCEPT !.send.una = ackn]
    ELSE c

\* if let State::FinWait1 = self.state { ... self.state = State::FinWait2 }
fin_acked(c) ==
    IF /\ c.state = "FinWait1"
       /\ c.closed_at # None
       /\ c.send.una = wrapping_add(c.closed_at[1], u32(1))
    THEN [c EXCEPT !.state = "FinWait2"]
    ELSE c

\* if !data.is_empty() { ... }: the data delivery
deliver(c, seg, now, checks) ==
    IF seg.data = <<>> \/ c.state \notin {"Estab", "FinWait1", "FinWait2"}
    THEN [c |-> c, out |-> <<>>, panic |-> FALSE]
    ELSE LET len == u32(Len(seg.data))
             at == wrapping_sub(c.recv.nxt, seg.seq)
             \* assert_eq!(unread_data_at, data.len() + 1)
             assert_fails == ULt(len, at) /\ at # wrapping_add(len, u32(1))
             unread_data_at == IF ULt(len, at) THEN 0 ELSE nat(at)
             c1 == [c EXCEPT
                      !.incoming = @ \o SubSeq(seg.data, unread_data_at + 1,
                                               Len(seg.data)),
                      !.recv.nxt = wrapping_add(seg.seq, len)]
             w == write(c1, c1.send.nxt, u32(0), now, checks)
         IN  IF assert_fails
             THEN [c |-> c, out |-> <<>>, panic |-> TRUE]
             ELSE [c |-> w.c, out |-> w.out, panic |-> w.panic]

\* if tcph.fin() { match self.state { ... } }
on_fin(c, seg, now, checks) ==
    IF ~seg.fin
    THEN [c |-> c, out |-> <<>>, panic |-> FALSE]
    ELSE IF c.state = "FinWait2"
    THEN LET c1 == [c EXCEPT !.recv.nxt = wrapping_add(@, u32(1))]
             w == write(c1, c1.send.nxt, u32(0), now, checks)
         IN  [c |-> IF w.panic THEN w.c ELSE [w.c EXCEPT !.state = "TimeWait"],
              out |-> w.out, panic |-> w.panic]
    ELSE \* unimplemented!()
         [c |-> c, out |-> <<>>, panic |-> TRUE]

(* Connection::on_packet(nic, iph, tcph, data) for the segment             *)
(* seg = [seq, ackn, syn, ack, fin, data].  The result is [c, out, panic,  *)
(* ret: the Available set returned, okay: the acceptability verdict].      *)
on_packet(c, seg, now, checks) ==
    LET okay == acceptable(c, seg)
        res(r, o) == [c |-> r.c, out |-> o, panic |-> r.panic,
                      ret |-> IF r.panic THEN {} ELSE availability(r.c),
                      okay |-> okay]
        plain(cc, p) == [c |-> cc, out |-> <<>>, panic |-> p]
        w == write(c, c.send.nxt, u32(0), now, checks)
        c2 == fin_acked(process_ack(establish(c, seg.ackn), seg.ackn, now))
        d == deliver(c2, seg, now, checks)
        f == on_fin(d.c, seg, now, checks)
    IN  IF ~okay THEN res(w, w.out)
        ELSE IF ~seg.ack
        THEN IF seg.syn
             THEN \* assert!(data.is_empty())
                  IF seg.data # <<>> THEN res(plain(c, TRUE), <<>>)
                  ELSE res(plain([c EXCEPT !.recv.nxt =
                                      wrapping_add(seg.seq, u32(1))], FALSE),
                           <<>>)
             ELSE res(plain(c, FALSE), <<>>)
        ELSE IF d.panic THEN res(d, d.out)
        ELSE res(f, d.out \o f.out)

---------------------------------------------------------------------------
(* TcpStream: lib.rs                                                       *)

\* a faulty write: it appends the whole buffer whatever the queue holds
stream_write_all(c, buf) ==
    [c |-> [c EXCEPT !.unacked = @ \o buf],
     ret |-> [ok |-> TRUE, n |-> Len(buf), err |-> ""]]

(* <TcpStream as Write>::write(buf) on the connection c.  ret is the       *)
(* io::Result: [ok |-> TRUE, n |-> nwrite] or [ok |-> FALSE, err |-> kind] *)
stream_write(c, buf) ==
    IF Len(c.unacked) >= SENDQUEUE_SIZE
    THEN [c |-> c, ret |-> [ok |-> FALSE, n |-> 0, err |-> "WouldBlock"]]
    ELSE LET nwrite == Min(Len(buf), SENDQUEUE_SIZE - Len(c.unacked))
         IN  [c |-> [c EXCEPT !.unacked = @ \o SubSeq(buf, 1, nwrite)],
              ret |-> [ok |-> TRUE, n |-> nwrite, err |-> ""]]

(* <TcpStream as Read>::read(buf) with buf.len() = buflen, when it does    *)
(* not wait: blocked says that the call would wait on recieving_var.       *)
stream_read(c, buflen) ==
    IF is_rcv_closed(c) /\ c.incoming = <<>>
    THEN [c |-> c, blocked |-> FALSE, n |-> 0, data |-> <<>>]
    ELSE IF c.incoming # <<>>
    THEN LET nread == Min(buflen, Len(c.incoming))
         IN  [c |-> [c EXCEPT !.incoming = SubSeq(@, nread + 1, Len(@))],
              blocked |-> FALSE, n |-> nread,
              data |-> SubSeq(c.incoming, 1, nread)]
    ELSE [c |-> c, blocked |-> TRUE, n |-> 0, data |-> <<>>]

(* <TcpStream as Write>::flush()                                           *)
stream_flush(c) == IF c.unacked = <<>> THEN "Ok" ELSE "WouldBlock"

---------------------------------------------------------------------------
(* Bounds of the model                                                     *)

\* the sequence numbers the peer may use up: on_packet is given a segment
\* with a payload or a SYN only while recv.nxt - recv.irs is at most this
MaxRecv == 1

\* Stream::write calls in one run
MaxWrites == 2

\* Stream::write calls of 2 * SENDQUEUE_SIZE bytes in one run
MaxBigWrites == 2

\* the one idle period of a run, in milliseconds, longer than 1.5 * srtt
Idle == 100000

\* the packets that may wait in the tunnel device
MaxTun == 2

\* the time from one on_tick to the next in TimerSpec, in milliseconds: the
\* poll timeout and what the scheduler adds, less than one second
TickGap == 900

---------------------------------------------------------------------------
(* State                                                                   *)

VARIABLES
    connections,      \* ConnectionManager.connections: Quad -> Connection
    pending,          \* ConnectionManager.pending: port -> FIFO of Quad
    terminate,        \* ConnectionManager.terminate
    poisoned,         \* a thread panicked while it held the manager's mutex
    listeners,        \* the ports of the live TcpListener handles
    streams,          \* the quads of the TcpStream handles handed out
    written,          \* the number of bytes Stream::write has accepted
    reader,           \* the thread in Stream::read: "idle", "waiting", "woken"
    now,              \* the clock, in milliseconds
    overflow_checks,  \* the build: TRUE checks integer overflow (debug)
    ingress,          \* where the thread running packet_loop is
    tun,              \* the number of packets waiting in the tunnel device
    iface,            \* the Interface: "up", "joining", "dropped", "panicked"
    last,             \* the last call: its input, result and segments sent
    nwrites

cmvars == <<connections, pending, terminate, poisoned>>
appvars == <<listeners, streams, written, reader>>
envvars == <<now, overflow_checks>>
loopvars == <<ingress, tun, iface>>
budgets == <<nwrites>>
vars == <<cmvars, appvars, envvars, loopvars, last, budgets>>

\* the one peer and the one port of the connection-level specifications
ThePort == "http"

Q == [source |-> <<"peer", "4000">>, destination |-> <<"local", ThePort>>]

\* the connection of quad Q
conn == connections[Q]

Open == Q \in DOMAIN connections

\* HashMap updates
put(m, k, v) == [x \in DOMAIN m \cup {k} |-> IF x = k THEN v ELSE m[x]]

remove(m, k) == [x \in DOMAIN m \ {k} |-> m[x]]

---------------------------------------------------------------------------
(* The inputs                                                              *)

\* an ordinary SYN of the peer
PlainSyn == [seq |-> u32(1000), wnd |-> InitialWindow]

\* the SYNs the peer opens with: an ordinary one, two whose window field is
\* zero or one, and two whose sequence numbers make the receive space wrap
PeerSyns ==
    {PlainSyn,
     [seq |-> u32(1000), wnd |-> 0],
     [seq |-> u32(1000), wnd |-> 1],
     [seq |-> <<Limb - 1, Limb - 2>>, wnd |-> InitialWindow],
     [seq |-> <<Limb - 1, Limb - 1>>, wnd |-> InitialWindow]}

\* the lengths of the buffers the application writes on the send side: it
\* writes byte by byte, so that several writes fill one segment
WriteLens == {1}

BigWriteLens == {2, 2 * SENDQUEUE_SIZE}

\* the lengths of the buffers the application reads into
ReadLens == {1, 2}

\* the lengths of the payloads the peer sends
DataLens == {1, 2}

\* the bytes the application writes next: positions written, written + 1,
\* ... of its stream
AppBytes(n) == [i \in 1 .. n |-> written + i - 1]

\* the payload of a segment of the peer
PeerData(n) == [i \in 1 .. n |-> i]

\* acknowledgment numbers around the send window of c: a stale one, a
\* duplicate, one byte more, everything that was sent, and one too many
PeerAcks(c) ==
    {wrapping_sub(c.send.una, u32(1)),
     c.send.una, wrapping_add(c.send.una, u32(1)),
     c.send.nxt, wrapping_add(c.send.nxt, u32(1))}

segment(seq, ackn, flags, n) ==
    [seq |-> seq, ackn |-> ackn, syn |-> "S" \in flags, ack |-> "A" \in flags,
     fin |-> "F" \in flags, data |-> PeerData(n)]

\* the segments without payload and without SYN that the peer may send to
\* c in order: acknowledgments and FINs
AckSegments(c) ==
    {segment(c.recv.nxt, x, fl, 0) :
        x \in PeerAcks(c), fl \in {{"A"}, {"A", "F"}}}

\* every shape of segment the code of on_packet tells apart, placed around
\* the two edges of the receive window of c
Segments(c) ==
    LET nxt == c.recv.nxt
        wend == window_end(c)
        a == c.send.nxt
        at(k) == wrapping_add(nxt, u32(k))
        back(k) == wrapping_sub(nxt, u32(k))
    IN  AckSegments(c)
        \* a FIN with data, a FIN without ACK, no flag at all
   \cup {segment(nxt, a, {"A", "F"}, 1), segment(nxt, a, {"F"}, 0),
         segment(nxt, a, {}, 0), segment(nxt, a, {}, 1)}
        \* data: in order, overlapping what was received, after a hole
   \cup {segment(nxt, a, {"A"}, n) : n \in DataLens}
   \cup {segment(back(1), a, {"A"}, n) : n \in {0} \cup DataLens}
   \cup {segment(at(1), a, {"A"}, n) : n \in 0 .. 1}
        \* SYNs
   \cup {segment(back(1), a, {"S"}, 0), segment(nxt, a, {"S"}, 0),
         segment(at(1), a, {"S"}, 0), segment(nxt, a, {"S"}, 1),
         segment(back(1), a, {"S", "F"}, 0),
         segment(back(1), a, {"S", "A"}, 1),
         segment(back(2), a, {"S", "A", "F"}, 1)}
        \* at the right edge of the window
   \cup {segment(wend, a, {"A"}, n) : n \in 0 .. 1}
   \cup {segment(wrapping_sub(wend, u32(1)), a, {"A"}, n) :
            n \in {0} \cup DataLens}
        \* far beyond the window
   \cup {segment(at(2 * InitialWindow), a, {"A"}, n) : n \in 0 .. 1}

\* whether recv.nxt may still be advanced by a segment with data or a SYN
MayAdvance(c, seg) ==
    \/ seg.data = <<>> /\ ~seg.syn
    \/ ~ULt(u32(MaxRecv), wrapping_sub(c.recv.nxt, c.recv.irs))

---------------------------------------------------------------------------
(* The calls.  A panic while the manager's mutex is held poisons it, and   *)
(* every later lock().unwrap() panics: nothing runs after it.  A panic in  *)
(* accept, on_packet or on_tick ends the thread that runs packet_loop.     *)

Init ==
    /\ connections = <<>>
    /\ pending = [p \in {ThePort} |-> <<>>]
    /\ terminate = FALSE
    /\ poisoned = FALSE
    /\ listeners = {ThePort}
    /\ streams = {}
    /\ written = 0
    /\ reader = "idle"
    /\ now = 0
    /\ overflow_checks \in BOOLEAN
    /\ ingress = "none"
    /\ tun = 0
    /\ iface = "up"
    /\ last = [op |-> "new"]
    /\ nwrites = 0

\* packet_loop, Entry::Vacant: Connection::accept on a segment of an unknown
\* quad whose port has a listener; the connection is inserted and its quad
\* is pushed onto the port's FIFO
AcceptFrom(syns) ==
    /\ ~poisoned /\ ~Open /\ ThePort \in DOMAIN pending
    /\ \E syn_seg \in syns, syn \in BOOLEAN :
         \E r \in {accept(syn_seg.seq, syn_seg.wnd, syn, now, overflow_checks)} :
             /\ connections' = IF r.ok THEN put(connections, Q, r.c)
                               ELSE connections
             /\ pending' = IF r.ok
                           THEN put(pending, ThePort,
                                    Append(pending[ThePort], Q))
                           ELSE pending
             /\ poisoned' = r.panic
             /\ ingress' = IF r.panic THEN "panicked" ELSE ingress
             /\ last' = [op |-> "accept", seq |-> syn_seg.seq,
                         wnd |-> syn_seg.wnd, syn |-> syn, ok |-> r.ok,
                         out |-> r.out, panic |-> r.panic]
    /\ UNCHANGED <<terminate, appvars, envvars, tun, iface, budgets>>

\* TcpListener::accept, when it does not wait: the front of the port's FIFO
\* becomes a TcpStream
ListenerAccept ==
    /\ ~poisoned /\ ThePort \in listeners
    /\ ThePort \in DOMAIN pending /\ pending[ThePort] # <<>>
    /\ streams' = streams \cup {Head(pending[ThePort])}
    /\ pending' = put(pending, ThePort, Tail(pending[ThePort]))
    /\ last' = [op |-> "listener_accept", port |-> ThePort,
                quad |-> Head(pending[ThePort])]
    /\ UNCHANGED <<connections, terminate, poisoned, listeners, written,
                   reader, envvars, loopvars, budgets>>

\* packet_loop, Entry::Occupied: Connection::on_packet on one of the
\* segments segs, which the caller chooses for the connection as it is
OnPacketFrom(segs) ==
    /\ ~poisoned /\ Open
    /\ \E seg \in segs :
         \E r \in {on_packet(conn, seg, now, overflow_checks)} :
             /\ MayAdvance(conn, seg)
             /\ connections' = put(connections, Q, r.c)
             /\ poisoned' = r.panic
             /\ ingress' = IF r.panic THEN "panicked" ELSE ingress
             /\ last' = [op |-> "on_packet", seg |-> seg, okay |-> r.okay,
                         ret |-> r.ret, out |-> r.out, panic |-> r.panic,
                         from |-> conn.state, una |-> conn.send.una,
                         wend |-> window_end(conn)]
    /\ UNCHANGED <<pending, terminate, appvars, envvars, tun, iface, budgets>>

\* packet_loop, poll timeout: Connection::on_tick
OnTick ==
    /\ ~poisoned /\ Open
    /\ \E r \in {on_tick(conn, now, overflow_checks)} :
           /\ connections' = put(connections, Q, r.c)
           /\ poisoned' = r.panic
           /\ ingress' = IF r.panic THEN "panicked" ELSE ingress
           /\ last' = [op |-> "on_tick", from |-> conn.state, out |-> r.out,
                       panic |-> r.panic]
    /\ UNCHANGED <<pending, terminate, appvars, envvars, tun, iface, budgets>>

\* <TcpStream as Write>::write
StreamWriteOf(lens, max) ==
    /\ ~poisoned /\ Q \in streams /\ Open /\ nwrites < max
    /\ \E n \in lens :
         \E r \in {stream_write(conn, AppBytes(n))} :
             /\ connections' = put(connections, Q, r.c)
             /\ written' = written + r.ret.n
             /\ last' = [op |-> "write", from |-> conn.state, buflen |-> n,
                         ret |-> r.ret]
    /\ nwrites' = nwrites + 1
    /\ UNCHANGED <<pending, terminate, poisoned, listeners, streams, reader,
                   envvars,
                   loopvars>>

\* <TcpStream as Read>::read, when it does not wait
StreamRead ==
    /\ ~poisoned /\ Q \in streams /\ Open
    /\ \E n \in ReadLens :
         \E r \in {stream_read(conn, n)} :
             /\ ~r.blocked
             /\ connections' = put(connections, Q, r.c)
             /\ last' = [op |-> "read", from |-> conn.state, buflen |-> n,
                         n |-> r.n, data |-> r.data]
    /\ UNCHANGED <<pending, terminate, poisoned, appvars, envvars, loopvars,
                   budgets>>

\* TcpStream::shutdown: Connection::close
Shutdown ==
    /\ ~poisoned /\ Q \in streams /\ Open
    /\ \E r \in {close(conn)} :
           /\ connections' = put(connections, Q, r.c)
           /\ last' = [op |-> "shutdown", from |-> conn.state, ret |-> r.ret,
                       out |-> <<>>]
    /\ UNCHANGED <<pending, terminate, poisoned, appvars, envvars, loopvars,
                   budgets>>

\* time passes
Elapse ==
    /\ ~poisoned /\ now < Idle
    /\ now' = now + Idle
    /\ last' = [op |-> "elapse"]
    /\ UNCHANGED <<cmvars, appvars, overflow_checks, loopvars, budgets>>

---------------------------------------------------------------------------
(* Spec: the receive side.  The peer sends every shape of segment; the     *)
(* application reads and closes, and writes nothing.                       *)

Accept == AcceptFrom(PeerSyns)

OnPacket == OnPacketFrom(Segments(conn))

Next ==
    \/ Accept
    \/ ListenerAccept
    \/ OnPacket
    \/ OnTick
    \/ StreamRead
    \/ Shutdown
    \/ Elapse

Spec == Init /\ [][Next]_vars

---------------------------------------------------------------------------
(* SendSpec: the send side.  The application writes and closes; the peer   *)
(* opens with an ordinary SYN and sends acknowledgments and FINs.          *)

AcceptPlain == AcceptFrom({PlainSyn})

StreamWrite == StreamWriteOf(WriteLens, MaxWrites)

OnAck == OnPacketFrom(AckSegments(conn))

SendNext ==
    \/ AcceptPlain
    \/ ListenerAccept
    \/ OnAck
    \/ OnTick
    \/ StreamWrite
    \/ Shutdown
    \/ Elapse

SendSpec == Init /\ [][SendNext]_vars

---------------------------------------------------------------------------
(* QueueSpec: the send queue.  The application writes buffers larger than  *)
(* the queue; the peer acknowledges everything that was sent.              *)

FullAcks(c) == {segment(c.recv.nxt, c.send.nxt, {"A"}, 0)}

OnFullAck == OnPacketFrom(FullAcks(conn))

BigWrite == StreamWriteOf(BigWriteLens, MaxBigWrites)

QueueNext ==
    \/ AcceptPlain
    \/ ListenerAccept
    \/ OnFullAck
    \/ OnTick
    \/ BigWrite
    \/ Shutdown

QueueSpec == Init /\ [][QueueNext]_vars

---------------------------------------------------------------------------
(* SysSpec: the interface.  Interface::new has spawned the thread that     *)
(* runs packet_loop; the application binds and drops listeners and drops   *)
(* the Interface; packets arrive at the tunnel device.  The specifications *)
(* above make the calls of lines 64-70 and 94-130 of packet_loop; this one *)
(* follows the loop from its top, line by line.                            *)

Ports == {ThePort, "echo"}

SysInit ==
    /\ connections = <<>>
    /\ pending = <<>>
    /\ terminate = FALSE
    /\ poisoned = FALSE
    /\ listeners = {}
    /\ streams = {}
    /\ written = 0
    /\ reader = "idle"
    /\ now = 0
    /\ overflow_checks \in BOOLEAN
    /\ ingress = "poll"
    /\ tun = 0
    /\ iface = "up"
    /\ last = [op |-> "new"]
    /\ nwrites = 0

\* the peer sends a packet: the tunnel device becomes readable
PacketArrives ==
    /\ tun < MaxTun
    /\ tun' = tun + 1
    /\ UNCHANGED <<cmvars, appvars, envvars, ingress, iface, last, budgets>>

\* packet_loop: poll returns 0 after 10 ms without a packet
PollTimeout ==
    /\ ingress = "poll" /\ tun = 0
    /\ ingress' = "tick"
    /\ UNCHANGED <<cmvars, appvars, envvars, tun, iface, last, budgets>>

\* packet_loop, if n == 0: on_tick for every connection, then continue
TickAll ==
    /\ ingress = "tick"
    /\ IF poisoned
       THEN ingress' = "panicked" /\ UNCHANGED <<connections, poisoned>>
       ELSE IF Open
       THEN \E r \in {on_tick(conn, now, overflow_checks)} :
                /\ connections' = put(connections, Q, r.c)
                /\ poisoned' = r.panic
                /\ ingress' = IF r.panic THEN "panicked" ELSE "poll"
       ELSE ingress' = "poll" /\ UNCHANGED <<connections, poisoned>>
    /\ UNCHANGED <<pending, terminate, appvars, envvars, tun, iface, last,
                   budgets>>

\* packet_loop: poll returns 1, the tunnel device is readable, and
\* assert_ne!(n, 1) panics; the manager's mutex is not held
PollReadable ==
    /\ ingress = "poll" /\ tun > 0
    /\ ingress' = "panicked"
    /\ UNCHANGED <<cmvars, appvars, envvars, tun, iface, last, budgets>>

\* a faulty bind: it replaces the FIFO of a port that is bound already
bind_again(p, port) == [pending |-> put(p, port, <<>>), ret |-> "Ok"]

\* Interface::bind(port) on the pending table p: cm.pending.entry(port)
bind(p, port) ==
    IF port \in DOMAIN p
    THEN [pending |-> p, ret |-> "AddrInUse"]
    ELSE [pending |-> put(p, port, <<>>), ret |-> "Ok"]

\* Interface::bind
Bind ==
    /\ iface = "up" /\ ~poisoned
    /\ \E port \in Ports :
         \E r \in {bind(pending, port)} :
             /\ pending' = r.pending
             /\ listeners' = IF r.ret = "Ok" THEN listeners \cup {port}
                              ELSE listeners
             /\ last' = [op |-> "bind", port |-> port, ret |-> r.ret,
                         live |-> port \in listeners]
    /\ UNCHANGED <<connections, terminate, poisoned, streams, written, reader,
                   envvars,
                   loopvars, budgets>>

\* <TcpListener as Drop>::drop
ListenerDrop ==
    /\ ~poisoned
    /\ \E port \in listeners :
         /\ pending' = remove(pending, port)
         /\ listeners' = listeners \ {port}
         /\ last' = [op |-> "listener_drop", port |-> port]
    /\ UNCHANGED <<connections, terminate, poisoned, streams, written, reader,
                   envvars,
                   loopvars, budgets>>

\* <Interface as Drop>::drop, up to the join
InterfaceDrop ==
    /\ iface = "up" /\ ~poisoned
    /\ terminate' = TRUE
    /\ iface' = "joining"
    /\ UNCHANGED <<connections, pending, poisoned, appvars, envvars, ingress,
                   tun, last, budgets>>

\* <Interface as Drop>::drop: the join returns once the thread has ended;
\* join().unwrap() panics when the thread ended in a panic
Join ==
    /\ iface = "joining" /\ ingress \in {"returned", "panicked"}
    /\ iface' = IF ingress = "returned" THEN "dropped" ELSE "panicked"
    /\ UNCHANGED <<cmvars, appvars, envvars, ingress, tun, last, budgets>>

SysNext ==
    \/ PacketArrives
    \/ PollTimeout
    \/ TickAll
    \/ PollReadable
    \/ Bind
    \/ ListenerDrop
    \/ InterfaceDrop
    \/ Join

\* the two threads keep running
SysSpec ==
    /\ SysInit /\ [][SysNext]_vars
    /\ WF_vars(PollTimeout) /\ WF_vars(TickAll) /\ WF_vars(PollReadable)
    /\ WF_vars(Join)

---------------------------------------------------------------------------
(* ReadSpec: one application thread in Stream::read and the thread of      *)
(* packet_loop.  Each holds the manager's mutex for the whole of a step:   *)
(* the reader while it tests the connection (and Condvar::wait gives the   *)
(* mutex up in the same step), the loop while it runs on_packet or         *)
(* on_tick.  The loop notifies recieving_var after drop(cmg), in a step of *)
(* its own.                                                                *)

\* the segments of the peer: acknowledgments of everything sent, with data
\* in order, with a FIN, or with both
ReadSegments(c) ==
    {segment(c.recv.nxt, c.send.nxt, fl, n) :
        fl \in {{"A"}, {"A", "F"}}, n \in {0} \cup DataLens}

\* packet_loop, Entry::Vacant
ReadAccept == ingress = "none" /\ AcceptPlain

\* packet_loop, if n == 0: on_tick, then continue; a panic of on_tick ends
\* the thread
ReadTick == ingress = "none" /\ OnTick

\* packet_loop, Entry::Occupied, up to drop(cmg); the loop goes on to
\* notify_all when the Available set that on_packet returned holds READ
Dispatch ==
    /\ ingress = "none" /\ ~poisoned /\ Open
    /\ \E seg \in ReadSegments(conn) :
         \E r \in {on_packet(conn, seg, now, overflow_checks)} :
             /\ MayAdvance(conn, seg)
             /\ connections' = put(connections, Q, r.c)
             /\ poisoned' = r.panic
             /\ ingress' = IF r.panic THEN "panicked"
                           ELSE IF "READ" \in r.ret THEN "notify"
                           ELSE "none"
             /\ last' = [op |-> "on_packet", seg |-> seg, okay |-> r.okay,
                         ret |-> r.ret, out |-> r.out, panic |-> r.panic,
                         from |-> conn.state, una |-> conn.send.una,
                         wend |-> window_end(conn)]
    /\ UNCHANGED <<pending, terminate, appvars, envvars, tun, iface, budgets>>

\* packet_loop after drop(cmg): if a.contains(READ), notify_all
Notify ==
    /\ ingress = "notify"
    /\ ingress' = "none"
    /\ reader' = IF reader = "waiting" THEN "woken" ELSE reader
    /\ UNCHANGED <<cmvars, listeners, streams, written, envvars, tun, iface,
                   last, budgets>>

\* <TcpStream as Read>::read from its lock() to its return or to its wait
ReadCall ==
    /\ reader = "idle" /\ ~poisoned /\ Q \in streams /\ Open
    /\ \E n \in ReadLens :
         \E r \in {stream_read(conn, n)} :
             /\ connections' = put(connections, Q, r.c)
             /\ reader' = IF r.blocked THEN "waiting" ELSE "idle"
             /\ last' = [op |-> "read", from |-> conn.state, buflen |-> n,
                         n |-> r.n, data |-> r.data, blocked |-> r.blocked,
                         ret |-> {}]
    /\ UNCHANGED <<pending, terminate, poisoned, listeners, streams, written,
                   envvars, loopvars, budgets>>

\* <TcpStream as Read>::read after recieving_var.wait returned: it holds
\* the mutex again and goes round its loop
ReadWake ==
    /\ reader = "woken"
    /\ IF poisoned
       THEN /\ reader' = "panicked"
            /\ UNCHANGED <<connections, last>>
       ELSE \E n \in ReadLens :
              \E r \in {stream_read(conn, n)} :
                /\ connections' = put(connections, Q, r.c)
                /\ reader' = IF r.blocked THEN "waiting" ELSE "idle"
                /\ last' = [op |-> "read", from |-> conn.state, buflen |-> n,
                            n |-> r.n, data |-> r.data, blocked |-> r.blocked,
                            ret |-> {}]
    /\ UNCHANGED <<pending, terminate, poisoned, listeners, streams, written,
                   envvars, loopvars, budgets>>

ReadNext ==
    \/ ReadAccept
    \/ ListenerAccept
    \/ Dispatch
    \/ Notify
    \/ ReadTick
    \/ ReadCall
    \/ ReadWake
    \/ Shutdown

\* the two threads keep running
ReadSpec ==
    /\ Init /\ [][ReadNext]_vars
    /\ WF_vars(Notify) /\ WF_vars(ReadWake)

---------------------------------------------------------------------------
(* TimerSpec: the retransmission timer.  The clock moves between the ticks *)
(* of packet_loop, TickGap at a time, and a run covers TimeLimit.  Every   *)
(* send_times entry keeps the Instant write recorded, and on_tick reads    *)
(* its age off the clock as Instant::elapsed does.  The peer and the       *)
(* application act during the first Warmup of a run; after that only ticks *)
(* happen.                                                                 *)

\* the time a run covers, in milliseconds
TimeLimit == 300000

Warmup == TickGap

InWarmup == now <= Warmup

\* the acknowledgments of the peer, without payload and without FIN
PureAcks(c) == {segment(c.recv.nxt, x, {"A"}, 0) : x \in PeerAcks(c)}

\* packet_loop, Entry::Vacant
TimerAccept == ingress = "none" /\ AcceptPlain

\* packet_loop, Entry::Occupied
TimerAck == ingress = "none" /\ InWarmup /\ OnPacketFrom(PureAcks(conn))

TimerWrite == InWarmup /\ StreamWrite

TimerShutdown == InWarmup /\ Shutdown

TimerListenerAccept == InWarmup /\ ListenerAccept

\* whether on_tick, which found c and sent out, resent from send.una
resends(c, out) == out # <<>> /\ out[1].seq = c.send.una

\* for how long the ticks have left send.una of c unanswered, after a tick
\* that found c and sent out: the time since the first of the consecutive
\* ticks that found this send.una behind send.nxt and did not resend from it
unanswered(c, out) ==
    IF \/ c.state \notin {"SynRecvd", "Estab", "FinWait1"}
       \/ c.send.una = c.send.nxt
       \/ resends(c, out)
    THEN 0
    ELSE IF last.op = "on_tick" /\ last.una = c.send.una
    THEN last.unanswered + TickGap
    ELSE 0

\* packet_loop, if n == 0: poll returns 0, TickGap after the tick before;
\* lock().unwrap() and on_tick
PollTick ==
    /\ ingress = "none" /\ ~poisoned /\ Open
    /\ now + TickGap <= TimeLimit
    /\ now' = now + TickGap
    /\ \E r \in {on_tick(conn, now + TickGap, overflow_checks)} :
           /\ connections' = put(connections, Q, r.c)
           /\ poisoned' = r.panic
           /\ ingress' = IF r.panic THEN "panicked" ELSE "none"
           /\ last' = [op |-> "on_tick", from |-> conn.state, out |-> r.out,
                       panic |-> r.panic, una |-> conn.send.una,
                       unanswered |-> unanswered(conn, r.out)]
    /\ UNCHANGED <<pending, terminate, appvars, overflow_checks, tun, iface,
                   budgets>>

TimerNext ==
    \/ TimerAccept
    \/ TimerListenerAccept
    \/ TimerAck
    \/ TimerWrite
    \/ TimerShutdown
    \/ PollTick

TimerSpec == Init /\ [][TimerNext]_vars

---------------------------------------------------------------------------
(* Properties                                                              *)

\* the segment and the verdict of the on_packet call of a step
BareAck(c) ==
    [seq |-> c.send.nxt, ack |-> c.recv.nxt, syn |-> FALSE, ackf |-> TRUE,
     fin |-> FALSE, payload |-> <<>>]

\* a segment that carries nothing but the flags in `flags`
IsPureAck(seg) == seg.ack /\ ~seg.syn /\ ~seg.fin /\ seg.data = <<>>

IsPureFin(seg) == seg.ack /\ ~seg.syn /\ seg.fin /\ seg.data = <<>>

\* slen > 0 and the right edge seq + slen - 1 is at wend
RightEdgeAt(seg, wend) ==
    /\ segment_len(seg) > 0
    /\ wrapping_add(seg.seq, u32(segment_len(seg) - 1)) = wend

\* C1 (as stated): the active close runs in order.  close on a connection in
\* Estab with empty unacked leaves it in FinWait1 without a segment; the
\* next on_tick emits exactly one FIN at seq = send.una and sets closed_at to
\* it; an ACK of closed_at + 1 moves FinWait1 to FinWait2; an acceptable FIN
\* then advances recv.nxt by one, emits an ACK and moves to TimeWait; a read
\* in TimeWait with empty incoming returns 0.
ActiveCloseInOrder ==
    [][/\ (last'.op = "shutdown" /\ conn.state = "Estab" /\ conn.unacked = <<>>)
            => (conn'.state = "FinWait1" /\ last'.out = <<>>)
       /\ (/\ last.op = "shutdown" /\ last.from = "Estab"
           /\ conn.unacked = <<>> /\ last'.op = "on_tick")
            => /\ ~last'.panic
               /\ Len(last'.out) = 1
               /\ last'.out[1].fin
               /\ last'.out[1].seq = conn.send.una
               /\ conn'.closed_at = Some(conn.send.una)
       /\ (/\ last'.op = "on_packet" /\ conn.state = "FinWait1"
           /\ conn.closed_at # None /\ last'.okay /\ IsPureAck(last'.seg)
           /\ last'.seg.ackn = wrapping_add(conn.closed_at[1], u32(1)))
            => conn'.state = "FinWait2"
       /\ (/\ last'.op = "on_packet" /\ conn.state = "FinWait2"
           /\ last'.okay /\ IsPureFin(last'.seg))
            => /\ ~last'.panic
               /\ conn'.recv.nxt = wrapping_add(conn.recv.nxt, u32(1))
               /\ Len(last'.out) = 1
               /\ last'.out[1].ackf /\ last'.out[1].payload = <<>>
               /\ last'.out[1].ack = conn'.recv.nxt
               /\ conn'.state = "TimeWait"
       /\ (/\ last'.op = "read" /\ conn.state = "TimeWait"
           /\ conn.incoming = <<>>)
            => last'.n = 0
      ]_vars

\* C2: the application has written N >= 1 bytes in all and they were sent
\* at the sequence numbers iss + 1 .. iss + N (send.nxt has reached
\* iss + 1 + N, and a FIN, if one was framed, lies at or after iss + 1 + N:
\* bytes written after the FIN was framed are never sent, so the peer
\* cannot acknowledge them).  When the peer's acknowledgment of all of them
\* arrives (ackn = iss + 1 + N, not older than send.una), whatever partial
\* acknowledgments and ticks came before, on_packet leaves unacked empty
\* and send.una = iss + 1 + N.
AckedBytesLeaveQueue ==
    [][(/\ last'.op = "on_packet" /\ ~last'.panic /\ last'.okay
        /\ last'.seg.ack /\ written > 0
        /\ last'.seg.ackn = wrapping_add(conn.send.iss, u32(1 + written))
        /\ ~wrapping_lt(conn.send.nxt, last'.seg.ackn)
        /\ ~wrapping_lt(last'.seg.ackn, conn.send.una)
        /\ \/ conn.closed_at = None
           \/ ~wrapping_lt(conn.closed_at[1], last'.seg.ackn))
        => /\ conn'.unacked = <<>>
           /\ conn'.send.una = last'.seg.ackn
      ]_vars

\* C2, its case: the acknowledgment of the last written byte arrived after
\* a partial acknowledgment had moved send.una into the written bytes, and
\* it emptied the queue
AckedAfterPartialAck ==
    /\ Open /\ last.op = "on_packet" /\ last.okay /\ ~last.panic
    /\ written > 1
    /\ last.seg.ackn = wrapping_add(conn.send.iss, u32(1 + written))
    /\ wrapping_lt(wrapping_add(conn.send.iss, u32(1)), last.una)
    /\ wrapping_lt(last.una, last.seg.ackn)
    /\ conn.send.una = last.seg.ackn
    /\ conn.unacked = <<>>
    /\ conn.closed_at = None

\* C3: Stream::write never lets unacked grow beyond SENDQUEUE_SIZE = 1024
\* bytes.  With room in the queue it appends the first
\* min(len(buf), 1024 - len(unacked)) bytes of buf and returns that count;
\* with a full queue it fails with WouldBlock and leaves unacked as it was.
WriteBoundedBySendQueue ==
    [][/\ Open' => Len(conn'.unacked) <= SENDQUEUE_SIZE
       /\ last'.op = "write" =>
            LET len == Len(conn.unacked)
                buf == AppBytes(last'.buflen)
                n == Min(Len(buf), SENDQUEUE_SIZE - len)
            IN  IF len < SENDQUEUE_SIZE
                THEN /\ conn'.unacked = conn.unacked \o SubSeq(buf, 1, n)
                     /\ last'.ret.ok /\ last'.ret.n = n
                ELSE /\ len = SENDQUEUE_SIZE
                     /\ ~last'.ret.ok /\ last'.ret.err = "WouldBlock"
                     /\ conn'.unacked = conn.unacked
      ]_vars

\* C3, its case: a write found the queue full with 1024 bytes and failed
\* with WouldBlock
WriteHitFullQueue ==
    /\ Open /\ last.op = "write"
    /\ ~last.ret.ok /\ last.ret.err = "WouldBlock"
    /\ Len(conn.unacked) = SENDQUEUE_SIZE

\* C4 (as stated): a Stream::write call made while the connection is in
\* FinWait2 or TimeWait appends nothing to unacked.
NoWriteAfterFinWait2 ==
    [][(last'.op = "write" /\ conn.state \in {"FinWait2", "TimeWait"})
        => conn'.unacked = conn.unacked
      ]_vars

\* C5 (as stated): recv.nxt never moves backward: after on_packet recv.nxt
\* is not lt-below its value before, whatever the segment.
RecvNxtNeverBackward ==
    [][last'.op = "on_packet"
        => ~wrapping_lt(conn'.recv.nxt, conn.recv.nxt)
      ]_vars

\* C6: in every reachable state send.una is not ahead of send.nxt
\* (not lt(send.nxt, send.una)), and in the synchronized states send.una is
\* send.iss or lt-after it.
SendSpaceOrdered ==
    Open =>
        /\ ~wrapping_lt(conn.send.nxt, conn.send.una)
        /\ is_synchronized(conn.state) =>
              \/ conn.send.una = conn.send.iss
              \/ wrapping_lt(conn.send.iss, conn.send.una)

\* C6, its case: written data and the FIN were sent and acknowledged, so
\* send.una moved several times and caught up with send.nxt
SendSpaceCaughtUp ==
    /\ Open /\ conn.state = "TimeWait" /\ written > 0
    /\ conn.send.una = conn.send.nxt
    /\ conn.send.una = wrapping_add(conn.send.iss, u32(written + 2))

\* C7 (as stated): on a segment that fails the acceptability check on_packet
\* emits exactly one payload-less ACK with seq = send.nxt and ack = recv.nxt,
\* returns the current availability and leaves state, send.una, send.nxt,
\* recv.nxt, incoming, unacked, closed and closed_at unchanged.
UnacceptableGetsBareAck ==
    [][(last'.op = "on_packet" /\ ~last'.okay)
        => /\ ~last'.panic
           /\ last'.out = <<BareAck(conn)>>
           /\ last'.ret = availability(conn)
           /\ conn'.state = conn.state
           /\ conn'.send.una = conn.send.una
           /\ conn'.send.nxt = conn.send.nxt
           /\ conn'.recv.nxt = conn.recv.nxt
           /\ conn'.incoming = conn.incoming
           /\ conn'.unacked = conn.unacked
           /\ conn'.closed = conn.closed
           /\ conn'.closed_at = conn.closed_at
      ]_vars

\* C8 (as stated): a segment with slen > 0 whose right edge seq + slen - 1
\* equals recv.nxt + recv.wnd is not acceptable and delivers nothing,
\* wherever its left edge lies.
RightEdgeAtWindowEndRejected ==
    [][(last'.op = "on_packet" /\ RightEdgeAt(last'.seg, window_end(conn)))
        => /\ ~last'.okay
           /\ conn'.incoming = conn.incoming
      ]_vars

\* C8 (amended): a segment with slen > 0 whose right edge seq + slen - 1
\* equals recv.nxt + recv.wnd passes the acceptability check exactly when its
\* left edge seq lies inside the window, recv.nxt <= seq < recv.nxt +
\* recv.wnd; when the left edge lies outside too, it is not acceptable and
\* on_packet delivers nothing and leaves recv.nxt as it was.
RightEdgeAtWindowEndNeedsLeftEdge ==
    [][(last'.op = "on_packet" /\ RightEdgeAt(last'.seg, window_end(conn)))
        => /\ last'.okay <=>
                ULt(wrapping_sub(last'.seg.seq, conn.recv.nxt),
                    u32(conn.recv.wnd))
           /\ ~last'.okay =>
                /\ conn'.incoming = conn.incoming
                /\ conn'.recv.nxt = conn.recv.nxt
      ]_vars

\* C8, its case: a segment whose right edge was at recv.nxt + recv.wnd and
\* whose left edge was inside the window was accepted and its payload
\* delivered
RightEdgeAtWindowEndDelivered ==
    /\ Open /\ last.op = "on_packet" /\ last.okay /\ ~last.panic
    /\ RightEdgeAt(last.seg, last.wend)
    /\ last.seg.data # <<>>
    /\ conn.incoming = last.seg.data

\* C9: close sets closed and emits no segment; from SynRecvd or Estab it
\* moves to FinWait1 and returns Ok; in FinWait1 or FinWait2 it keeps the
\* state and returns Ok; in TimeWait it keeps the state and fails with
\* NotConnected.
CloseByState ==
    [][last'.op = "shutdown"
        => /\ conn'.closed
           /\ last'.out = <<>>
           /\ conn.state \in {"SynRecvd", "Estab"}
                => (conn'.state = "FinWait1" /\ last'.ret = "Ok")
           /\ conn.state \in {"FinWait1", "FinWait2"}
                => (conn'.state = conn.state /\ last'.ret = "Ok")
           /\ conn.state = "TimeWait"
                => (conn'.state = "TimeWait" /\ last'.ret = "NotConnected")
      ]_vars

\* C9, its case: close was called in TimeWait and failed with NotConnected
CloseFailedInTimeWait ==
    /\ Open /\ last.op = "shutdown" /\ last.from = "TimeWait"
    /\ last.ret = "NotConnected"
    /\ conn.state = "TimeWait" /\ conn.closed

\* C10 (as stated): once Interface::drop has set terminate, the thread that
\* runs packet_loop eventually leaves the loop.
LoopLeavesAfterTerminate ==
    terminate ~> (ingress \notin {"poll", "tick"})

\* C11: bind(port) fails with AddrInUse exactly when a listener of the port
\* is live, and then leaves the pending table as it was; a bind that
\* succeeds gives the port an empty FIFO; dropping the listener removes the
\* port's FIFO (so that the next bind of the port succeeds).
BindFailsIffListenerLive ==
    [][/\ (last' # last /\ last'.op = "bind") =>
            /\ (last'.ret = "AddrInUse") <=> (last'.port \in listeners)
            /\ last'.ret \in {"AddrInUse", "Ok"}
            /\ last'.ret = "AddrInUse" =>
                  (pending' = pending /\ listeners' = listeners)
            /\ last'.ret = "Ok" =>
                  /\ last'.port \in DOMAIN pending'
                  /\ pending'[last'.port] = <<>>
                  /\ last'.port \in listeners'
       /\ (last' # last /\ last'.op = "listener_drop") =>
            /\ last'.port \in listeners
            /\ last'.port \notin DOMAIN pending'
            /\ last'.port \notin listeners'
      ]_vars

\* C11, its case: a second bind of a port whose listener is live failed
\* with AddrInUse while another port had been bound, dropped and bound
\* again
BindCollided ==
    /\ last.op = "bind" /\ last.ret = "AddrInUse" /\ last.live
    /\ last.port \in listeners /\ last.port \in DOMAIN pending
    /\ listeners = Ports

\* C12 (as stated): no read wake-up is lost.  Once incoming holds bytes or
\* the connection is in TimeWait, a reader that waits in Stream::read is
\* eventually woken and returns.
BlockedReaderReturns ==
    (/\ reader = "waiting" /\ Open
     /\ (conn.incoming # <<>> \/ conn.state = "TimeWait"))
        ~> (reader = "idle")

\* the segments that the last step put on the wire
Sent == IF "out" \in DOMAIN last THEN last.out ELSE <<>>

\* C13 (as stated): every payload byte on the wire carries the sequence
\* number the send queue assigns to it.  The i-th byte the application
\* wrote (counted from 0, and that is its value here) is only ever sent at
\* sequence number iss + 1 + i.
BytesSentAtTheirSeq ==
    Open =>
        \A k \in 1 .. Len(Sent) : \A j \in 1 .. Len(Sent[k].payload) :
            wrapping_add(Sent[k].seq, u32(j - 1))
                = wrapping_add(conn.send.iss, u32(1 + Sent[k].payload[j]))

\* C14 (as stated): a data segment that passes the acceptability check but
\* starts strictly after recv.nxt is dropped after an ACK was echoed:
\* on_packet completes normally, appends nothing to incoming and leaves
\* recv.nxt unchanged.
HoleIsDropped ==
    [][(/\ last'.op = "on_packet" /\ last'.okay
        /\ last'.seg.data # <<>>
        /\ wrapping_lt(conn.recv.nxt, last'.seg.seq))
        => /\ ~last'.panic
           /\ conn'.incoming = conn.incoming
           /\ conn'.recv.nxt = conn.recv.nxt
      ]_vars

\* C15 (as stated): when poll reports the tunnel device readable, the loop
\* goes on to receive one packet; no assertion of packet_loop fails on a
\* readable poll result.
ReadablePollReceives ==
    [][(ingress = "poll" /\ tun > 0 /\ ingress' # ingress)
        => /\ ingress' # "panicked"
           /\ tun' = tun - 1
      ]_vars

\* C16 (as stated): a send_times entry is removed when the sequence number
\* it records is acknowledged.  After on_packet advanced send.una from u
\* to ackn, send_times holds no key in [u, ackn) under wrap-around order.
AckedTimersRemoved ==
    [][(/\ last'.op = "on_packet" /\ ~last'.panic
        /\ conn'.send.una # conn.send.una)
        => \A k \in DOMAIN conn'.timers.send_times :
              /\ k # conn.send.una
              /\ ~is_between_wrapped(conn.send.una, k, conn'.send.una)
      ]_vars

\* on_tick: closed_at.unwrap_or(send.nxt).wrapping_sub(send.una)
nunacked(c) == wrapping_sub(unwrap_or(c.closed_at, c.send.nxt), c.send.una)

\* C17 (as stated): whenever on_tick runs past its fast exit, nunacked is
\* at most len(unacked), so len(unacked) - nunacked does not underflow and
\* write is not asked to skip more bytes than unacked holds; on_tick does
\* not panic.
TickCountsWithinQueue ==
    [][(last'.op = "on_tick" /\ conn.state \notin {"FinWait2", "TimeWait"})
        => /\ ~ULt(u32(Len(conn.unacked)), nunacked(conn))
           /\ ~last'.panic
      ]_vars

\* C19 (as stated): the sequence number of the FIN is fixed once assigned.
\* After on_tick set closed_at to Some(s), no later step of Stream::write,
\* on_tick, on_packet or close changes closed_at.
FinSeqFixed ==
    [][(Open /\ conn.closed_at # None) => conn'.closed_at = conn.closed_at
      ]_vars

\* C20 (as stated): a PCB leaves SynRecvd for Estab only on a segment whose
\* ACK number is send.iss + 1; in Estab send.una is never send.iss, and a
\* segment whose ACK number is send.iss leaves the PCB in SynRecvd.
EstabOnlyOnSynAcked ==
    [][(last'.op = "on_packet" /\ conn.state = "SynRecvd")
        => /\ conn'.state = "Estab" =>
                 /\ last'.seg.ackn = wrapping_add(conn.send.iss, u32(1))
                 /\ conn'.send.una # conn'.send.iss
           /\ last'.seg.ackn = conn.send.iss => conn'.state = "SynRecvd"
      ]_vars

\* something that was sent is unacknowledged, and the ingress thread lives
Unacknowledged ==
    /\ Open /\ ~poisoned
    /\ conn.state \in {"SynRecvd", "Estab", "FinWait1"}
    /\ conn.send.una # conn.send.nxt

\* the last step was an on_tick that sent a segment starting at send.una
Resent ==
    /\ Open /\ last.op = "on_tick"
    /\ Sent # <<>> /\ Sent[1].seq = conn.send.una

\* how long a PCB may wait for the retransmission: more than twice the
\* longest timeout of a run, 1.5 * srtt with srtt at most the 60 s it
\* starts with
Patience == 200000

\* C18 (as stated, over the time a run covers): retransmission stays armed
\* for the oldest unacknowledged sequence number.  While the ticks fire,
\* one every TickGap, and no further ACK arrives, a PCB in SynRecvd, Estab
\* or FinWait1 with send.una # send.nxt is not left for longer than
\* Patience without an on_tick that resends starting at send.una.
RetransmissionStaysArmed ==
    (Unacknowledged /\ last.op = "on_tick") => last.unanswered <= Patience

============================================================================
